---- MODULE Spec2Model ----
(***************************************************************************)
(* passman: an encrypted account store kept in one file.  Every command    *)
(* invocation derives a key from the master passphrase, loads and decrypts *)
(* the file, reads or mutates the account map, and (for Add/Delete/Update) *)
(* re-encrypts the map under a fresh random nonce and rewrites the file.   *)
(*                                                                         *)
(* Cryptography is symbolic: a ciphertext records the key, the nonce and   *)
(* the plaintext it was produced from and whether a bit of it was altered; *)
(* decryption succeeds only with the same key and nonce on an unaltered    *)
(* ciphertext.  The file is a sequence of JSON tokens, so that a partially *)
(* written file is a proper prefix of a document.                          *)
(***************************************************************************)
EXTENDS Integers, Sequences, FiniteSets, TLC

VARIABLES
    file,      \* the backing file DATA_FILE: does it exist, and its content
    last,      \* the invocation that has just completed (history)
    abs,       \* abstract account map: the durable mutations applied in order
    deleted,   \* usernames deleted successfully and not added again since
    nonces,    \* the <<key, nonce>> of every envelope written whole so far
    procs      \* the invocations that run at the same time, one per process

vars == <<file, last, abs, deleted, nonces, procs>>

-----------------------------------------------------------------------------
(* Input domains *)

Usernames   == {"alice", "bob"}
Passwords   == {"p1", "p2"}
NotesVals   == {"n1", "n2"}
Passphrases == {"m1", "m2"}

\* number of distinct values rand::random can return for the nonce
MaxNonce == 2

NONCE_LENGTH == 12

\* Option<String>
None    == <<>>
Some(x) == <<x>>
Options(S) == {None} \cup {Some(x) : x \in S}

-----------------------------------------------------------------------------
(* Results *)

Ok              == "Ok"
IoError         == "IoError"
SerdeError      == "SerdeError"
Base64Error     == "Base64Error"
AesError        == "AesError"
\* AppError::OtherError carries a message; the two messages the code uses
AccountExists   == "OtherError: account exists"
AccountMissing  == "OtherError: account does not exist"
\* Nonce::from_slice aborts the process on a slice of the wrong length
Panic           == "panic"
\* the process died before the handler returned
Crashed         == "crashed"

\* the variant of AppError that a result is
Variant(res) ==
    IF res \in {AccountExists, AccountMissing} THEN "OtherError" ELSE res

\* the failures that the code reports with each variant of AppError: the From
\* conversions, and From<&str>, which both "account exists" and "account does
\* not exist" go through
ReportedAs(variant) ==
    IF variant = IoError THEN {"IoError"}
    ELSE IF variant \in {SerdeError, Base64Error} THEN {"FormatError"}
    ELSE IF variant = AesError THEN {"AuthenticationError"}
    ELSE IF variant = "OtherError" THEN {"AlreadyExists", "NotFound"}
    ELSE {}

-----------------------------------------------------------------------------
(* Key derivation: SHA-256 of the passphrase, a one-way injective image *)

derive_key(master_key) == [sha256 |-> master_key]

-----------------------------------------------------------------------------
(* AccountStore = HashMap<String, Account> *)

AccountStore_new == [u \in {} |-> [password |-> "", notes |-> ""]]

contains_key(accounts, username) == username \in DOMAIN accounts

insert(accounts, username, account) ==
    [u \in DOMAIN accounts \cup {username} |->
        IF u = username THEN account ELSE accounts[u]]

\* remove that leaves the entry in place
remove_keeps(accounts, username) == accounts

remove(accounts, username) ==
    [u \in DOMAIN accounts \ {username} |-> accounts[u]]

-----------------------------------------------------------------------------
(* Codec: serde_json on the account map.  The payload is the sequence of   *)
(* entries in the iteration order of the HashMap, which is arbitrary.      *)

RECURSIVE Orderings(_)
Orderings(S) ==
    IF S = {} THEN {<<>>}
    ELSE UNION {{<<x>> \o t : t \in Orderings(S \ {x})} : x \in S}

\* to_vec that writes the two fields of an account under each other's name
to_vec_swapped(accounts) ==
    {[i \in 1..Len(o) |-> [key      |-> o[i],
                           password |-> accounts[o[i]].notes,
                           notes    |-> accounts[o[i]].password]]
        : o \in Orderings(DOMAIN accounts)}

\* serde_json::to_vec(accounts): the payloads it can produce
to_vec(accounts) ==
    {[i \in 1..Len(o) |-> [key      |-> o[i],
                           password |-> accounts[o[i]].password,
                           notes    |-> accounts[o[i]].notes]]
        : o \in Orderings(DOMAIN accounts)}

\* serde_json::from_slice::<AccountStore>(data): entries are inserted in order
RECURSIVE from_slice(_)
from_slice(data) ==
    IF data = <<>> THEN AccountStore_new
    ELSE LET e == data[Len(data)]
         IN insert(from_slice(SubSeq(data, 1, Len(data) - 1)), e.key,
                   [password |-> e.password, notes |-> e.notes])

\* from_slice returns an error unless every entry has both fields of Account
from_slice_ok(data) ==
    \A i \in 1..Len(data) : DOMAIN data[i] = {"key", "password", "notes"}

-----------------------------------------------------------------------------
(* base64 (general_purpose::STANDARD) *)

encode(bytes) == [valid |-> TRUE, bytes |-> bytes]

decode(s) == IF s.valid THEN [ok |-> TRUE, bytes |-> s.bytes]
             ELSE [ok |-> FALSE, bytes |-> <<>>]

-----------------------------------------------------------------------------
(* AES-256-GCM *)

\* rand::random asked for an array of another length
Nonces_long == {[len |-> NONCE_LENGTH + 4, id |-> i] : i \in 1..MaxNonce}

\* rand::random::<[u8; NONCE_LENGTH]>()
Nonces == {[len |-> NONCE_LENGTH, id |-> i] : i \in 1..MaxNonce}

encrypt(key, nonce, data) ==
    [k |-> key, n |-> nonce, pt |-> data, flip |-> FALSE]

\* decrypt that does not verify the tag
decrypt_unverified(key, nonce, ct) ==
    IF ct.k = key
    THEN [ok |-> TRUE, data |-> ct.pt]
    ELSE [ok |-> FALSE, data |-> <<>>]

decrypt(key, nonce, ct) ==
    IF ct.k = key /\ ct.n = nonce /\ ~ct.flip
    THEN [ok |-> TRUE, data |-> ct.pt]
    ELSE [ok |-> FALSE, data |-> <<>>]

-----------------------------------------------------------------------------
(* PasswordStore document: {"iv": "...", "encrypted_data": "..."} *)

LBrace   == [t |-> "{"]
RBrace   == [t |-> "}"]
Key(s)   == [t |-> "key", v |-> s]
Str(s)   == [t |-> "str", v |-> s]

\* serde_json::to_string(&store)
to_string(store) ==
    <<LBrace, Key("iv"), Str(store.iv),
      Key("encrypted_data"), Str(store.encrypted_data), RBrace>>

\* serde_json::from_str::<PasswordStore>(content)
from_str(content) ==
    IF /\ Len(content) = 6
       /\ content[1] = LBrace
       /\ content[2] = Key("iv")
       /\ content[3].t = "str"
       /\ content[4] = Key("encrypted_data")
       /\ content[5].t = "str"
       /\ content[6] = RBrace
    THEN [ok |-> TRUE, iv |-> content[3].v, encrypted_data |-> content[5].v]
    ELSE [ok |-> FALSE]

-----------------------------------------------------------------------------
(* The backing file *)

NoFile == [exists |-> FALSE, content |-> <<>>]

\* std::fs::write(DATA_FILE, json) is File::create (create or truncate)
\* followed by write_all.  mode "none": it completes.  mode "io": it returns
\* an error, either from File::create (nothing changed) or from write_all
\* after part of the document was written.  mode "crash": the process dies
\* at any point of it.
fs_write(f, json, mode) ==
    IF mode = "none"
    THEN {[res |-> Ok, file |-> [exists |-> TRUE, content |-> json]]}
    ELSE IF mode = "io"
    THEN {[res |-> IoError, file |-> f]} \cup
         {[res |-> IoError,
           file |-> [exists |-> TRUE, content |-> SubSeq(json, 1, w)]]
             : w \in 0..(Len(json) - 1)}
    ELSE {[res |-> Crashed, file |-> f]} \cup
         {[res |-> Crashed,
           file |-> [exists |-> TRUE, content |-> SubSeq(json, 1, w)]]
             : w \in 0..Len(json)}

LoadErr(e) == [res |-> e, accounts |-> AccountStore_new]

\* load_accounts that takes a document it cannot parse for an empty store
load_accounts_lenient(f, key) ==
    IF ~f.exists THEN [res |-> Ok, accounts |-> AccountStore_new]
    ELSE LET store == from_str(f.content) IN
    IF ~store.ok THEN [res |-> Ok, accounts |-> AccountStore_new]
    ELSE LET iv == decode(store.iv) IN
    IF ~iv.ok THEN LoadErr(Base64Error)
    ELSE IF iv.bytes.len # NONCE_LENGTH THEN LoadErr(Panic)
    ELSE LET encrypted_data == decode(store.encrypted_data) IN
    IF ~encrypted_data.ok THEN LoadErr(Base64Error)
    ELSE LET decrypted_data == decrypt(key, iv.bytes, encrypted_data.bytes) IN
    IF ~decrypted_data.ok THEN LoadErr(AesError)
    ELSE IF ~from_slice_ok(decrypted_data.data) THEN LoadErr(SerdeError)
    ELSE [res |-> Ok, accounts |-> from_slice(decrypted_data.data)]

\* load_accounts that takes an envelope it cannot decrypt for an empty store
load_accounts_forgiving(f, key) ==
    IF ~f.exists THEN [res |-> Ok, accounts |-> AccountStore_new]
    ELSE LET store == from_str(f.content) IN
    IF ~store.ok THEN LoadErr(SerdeError)
    ELSE LET iv == decode(store.iv) IN
    IF ~iv.ok THEN LoadErr(Base64Error)
    ELSE IF iv.bytes.len # NONCE_LENGTH THEN LoadErr(Panic)
    ELSE LET encrypted_data == decode(store.encrypted_data) IN
    IF ~encrypted_data.ok THEN LoadErr(Base64Error)
    ELSE LET decrypted_data == decrypt(key, iv.bytes, encrypted_data.bytes) IN
    IF ~decrypted_data.ok THEN [res |-> Ok, accounts |-> AccountStore_new]
    ELSE IF ~from_slice_ok(decrypted_data.data) THEN LoadErr(SerdeError)
    ELSE [res |-> Ok, accounts |-> from_slice(decrypted_data.data)]

load_accounts(f, key) ==
    IF ~f.exists THEN [res |-> Ok, accounts |-> AccountStore_new]
    ELSE LET store == from_str(f.content) IN
    IF ~store.ok THEN LoadErr(SerdeError)
    ELSE LET iv == decode(store.iv) IN
    IF ~iv.ok THEN LoadErr(Base64Error)
    ELSE IF iv.bytes.len # NONCE_LENGTH THEN LoadErr(Panic)
    ELSE LET encrypted_data == decode(store.encrypted_data) IN
    IF ~encrypted_data.ok THEN LoadErr(Base64Error)
    ELSE LET decrypted_data == decrypt(key, iv.bytes, encrypted_data.bytes) IN
    IF ~decrypted_data.ok THEN LoadErr(AesError)
    ELSE IF ~from_slice_ok(decrypted_data.data) THEN LoadErr(SerdeError)
    ELSE [res |-> Ok, accounts |-> from_slice(decrypted_data.data)]

\* the outcomes of save_accounts: one per payload order, nonce and write outcome
save_accounts(f, key, accounts, mode) ==
    UNION {
        LET encrypted_data == encrypt(key, iv, data)
            store == [iv |-> encode(iv),
                      encrypted_data |-> encode(encrypted_data)]
        IN fs_write(f, to_string(store), mode)
        : iv \in Nonces, data \in to_vec(accounts)}

-----------------------------------------------------------------------------
(* The five handlers.  Each returns the set of its possible outcomes:      *)
(*   res    the value returned to main (Ok or the error)                    *)
(*   file   the backing file when the handler ends                          *)
(*   out    the rows printed (username, password, notes)                    *)
(*   wrote  whether fs::write was called                                    *)
(*   old    the account map as loaded, new  the map handed to save_accounts *)

Failed(e, f, accounts) ==
    [res |-> e, file |-> f, out |-> {}, wrote |-> FALSE,
     old |-> accounts, new |-> accounts]

Saved(f, key, old, accounts, mode) ==
    {[res |-> w.res, file |-> w.file, out |-> {}, wrote |-> TRUE,
      old |-> old, new |-> accounts]
        : w \in save_accounts(f, key, accounts, mode)}

Row(accounts, username) ==
    <<username, accounts[username].password, accounts[username].notes>>

\* add_account without the contains_key test
add_account_overwrites(f, key, username, password, notes, mode) ==
    LET l == load_accounts(f, key) IN
    IF l.res # Ok THEN {Failed(l.res, f, l.accounts)}
    ELSE Saved(f, key, l.accounts,
               insert(l.accounts, username,
                      [password |-> password, notes |-> notes]),
               mode)

add_account(f, key, username, password, notes, mode) ==
    LET l == load_accounts(f, key) IN
    IF l.res # Ok THEN {Failed(l.res, f, l.accounts)}
    ELSE IF contains_key(l.accounts, username)
    THEN {Failed(AccountExists, f, l.accounts)}
    ELSE Saved(f, key, l.accounts,
               insert(l.accounts, username,
                      [password |-> password, notes |-> notes]),
               mode)

delete_account(f, key, username, mode) ==
    LET l == load_accounts(f, key) IN
    IF l.res # Ok THEN {Failed(l.res, f, l.accounts)}
    ELSE IF ~contains_key(l.accounts, username)
    THEN {Failed(AccountMissing, f, l.accounts)}
    ELSE Saved(f, key, l.accounts, remove(l.accounts, username), mode)

\* update_account that creates the account when it is missing
update_account_upserts(f, key, username, password, notes, mode) ==
    LET l == load_accounts(f, key) IN
    IF l.res # Ok THEN {Failed(l.res, f, l.accounts)}
    ELSE LET account == IF contains_key(l.accounts, username)
                        THEN l.accounts[username]
                        ELSE [password |-> "", notes |-> ""]
             account1 == IF password # None
                         THEN [account EXCEPT !.password = password[1]]
                         ELSE account
             account2 == IF notes # None
                         THEN [account1 EXCEPT !.notes = notes[1]]
                         ELSE account1
         IN Saved(f, key, l.accounts,
                  insert(l.accounts, username, account2), mode)

\* update_account that forgets the notes
update_account_drops_notes(f, key, username, password, notes, mode) ==
    LET l == load_accounts(f, key) IN
    IF l.res # Ok THEN {Failed(l.res, f, l.accounts)}
    ELSE IF ~contains_key(l.accounts, username)
    THEN {Failed(AccountMissing, f, l.accounts)}
    ELSE LET account == l.accounts[username]
             account1 == IF password # None
                         THEN [account EXCEPT !.password = password[1]]
                         ELSE account
         IN Saved(f, key, l.accounts,
                  [l.accounts EXCEPT ![username] = account1], mode)

update_account(f, key, username, password, notes, mode) ==
    LET l == load_accounts(f, key) IN
    IF l.res # Ok THEN {Failed(l.res, f, l.accounts)}
    ELSE IF ~contains_key(l.accounts, username)
    THEN {Failed(AccountMissing, f, l.accounts)}
    ELSE LET account == l.accounts[username]
             account1 == IF password # None
                         THEN [account EXCEPT !.password = password[1]]
                         ELSE account
             account2 == IF notes # None
                         THEN [account1 EXCEPT !.notes = notes[1]]
                         ELSE account1
         IN Saved(f, key, l.accounts,
                  [l.accounts EXCEPT ![username] = account2], mode)

list_accounts(f, key) ==
    LET l == load_accounts(f, key) IN
    IF l.res # Ok THEN {Failed(l.res, f, l.accounts)}
    ELSE {[res |-> Ok, file |-> f,
           out |-> {Row(l.accounts, u) : u \in DOMAIN l.accounts},
           wrote |-> FALSE, old |-> l.accounts, new |-> l.accounts]}

\* get_account that saves the store again after reading it
get_account_saves(f, key, username) ==
    LET l == load_accounts(f, key) IN
    IF l.res # Ok THEN {Failed(l.res, f, l.accounts)}
    ELSE IF ~contains_key(l.accounts, username)
    THEN {Failed(AccountMissing, f, l.accounts)}
    ELSE {[w EXCEPT !.out = {Row(l.accounts, username)}]
            : w \in Saved(f, key, l.accounts, l.accounts, "none")}

get_account(f, key, username) ==
    LET l == load_accounts(f, key) IN
    IF l.res # Ok THEN {Failed(l.res, f, l.accounts)}
    ELSE IF ~contains_key(l.accounts, username)
    THEN {Failed(AccountMissing, f, l.accounts)}
    ELSE {[res |-> Ok, file |-> f, out |-> {Row(l.accounts, username)},
           wrote |-> FALSE, old |-> l.accounts, new |-> l.accounts]}

-----------------------------------------------------------------------------
(* History *)

NoInvocation ==
    [op |-> "none", key |-> derive_key(""), u |-> "", p |-> None, n |-> None,
     res |-> Ok, out |-> {}, wrote |-> FALSE, before |-> NoFile,
     old |-> AccountStore_new, new |-> AccountStore_new]

\* the operation table of the store applied to the abstract map
AbsApply(op, m, u, p, n) ==
    IF op = "Add"
    THEN [x \in DOMAIN m \cup {u} |->
            IF x = u THEN [password |-> p[1], notes |-> n[1]] ELSE m[x]]
    ELSE IF op = "Delete"
    THEN [x \in DOMAIN m \ {u} |-> m[x]]
    ELSE IF op = "Update"
    THEN [x \in DOMAIN m |->
            IF x = u
            THEN [password |-> IF p = None THEN m[x].password ELSE p[1],
                  notes    |-> IF n = None THEN m[x].notes ELSE n[1]]
            ELSE m[x]]
    ELSE m

\* the mutation reached the file whole: the handler returned Ok, or the process
\* died after the last byte of the new envelope was written
Durable(key, r) ==
    \/ r.res = Ok
    \/ r.res = Crashed /\ r.file # file /\ load_accounts(r.file, key).res = Ok

\* one process invocation: main derives the key, runs one handler to its end
Invoke(op, master_key, u, p, n, r) ==
    LET key == derive_key(master_key) IN
    /\ file' = r.file
    /\ last' = [op |-> op, key |-> key, u |-> u,
                p |-> p, n |-> n, res |-> r.res, out |-> r.out,
                wrote |-> r.wrote, before |-> file,
                old |-> r.old, new |-> r.new]
    /\ abs' = IF Durable(key, r) THEN AbsApply(op, abs, u, p, n) ELSE abs
    /\ deleted' = IF Durable(key, r) /\ op = "Delete" THEN deleted \cup {u}
                  ELSE IF Durable(key, r) /\ op = "Add" THEN deleted \ {u}
                  ELSE deleted
    /\ nonces' = IF Durable(key, r) /\ r.wrote /\ from_str(r.file.content).ok
                 THEN nonces \cup {<<key, from_str(r.file.content).iv.bytes>>}
                 ELSE nonces
    /\ UNCHANGED procs

\* no invocation is running: invocations are sequential
Idle == last.op = "none"

\* the processes that can run passman at the same time
Procs == {1, 2}

\* how many invocations the processes make in all
MaxRuns == 3

\* a process that is not running passman, after runs invocations
NoProcess(runs) ==
    [pc |-> "idle", op |-> "none", key |-> derive_key("m1"), u |-> "alice",
     res |-> Ok, clean |-> TRUE, old |-> AccountStore_new, json |-> <<>>,
     del |-> FALSE, runs |-> runs]

Init ==
    /\ file = NoFile
    /\ last = NoInvocation
    /\ abs = AccountStore_new
    /\ deleted = {}
    /\ nonces = {}
    /\ procs = [i \in Procs |-> NoProcess(0)]

-----------------------------------------------------------------------------
(* Invocations that run to completion *)

Add(m, u, p, n) ==
    /\ Idle
    /\ \E r \in add_account(file, derive_key(m), u, p, n, "none") :
          Invoke("Add", m, u, Some(p), Some(n), r)

Delete(m, u) ==
    /\ Idle
    /\ \E r \in delete_account(file, derive_key(m), u, "none") :
          Invoke("Delete", m, u, None, None, r)

Update(m, u, p, n) ==
    /\ Idle
    /\ \E r \in update_account(file, derive_key(m), u, p, n, "none") :
          Invoke("Update", m, u, p, n, r)

List(m) ==
    /\ Idle
    /\ \E r \in list_accounts(file, derive_key(m)) :
          Invoke("List", m, "", None, None, r)

Get(m, u) ==
    /\ Idle
    /\ \E r \in get_account(file, derive_key(m), u) :
          Invoke("Get", m, u, None, None, r)

\* the process exits: main prints the outcome and returns
Exit ==
    /\ ~Idle
    /\ last' = NoInvocation
    /\ UNCHANGED <<file, abs, deleted, nonces, procs>>

(* Invocations whose fs::write returns an I/O error *)

AddIoError(m, u, p, n) ==
    /\ Idle
    /\ \E r \in add_account(file, derive_key(m), u, p, n, "io") :
          r.wrote /\ Invoke("Add", m, u, Some(p), Some(n), r)

DeleteIoError(m, u) ==
    /\ Idle
    /\ \E r \in delete_account(file, derive_key(m), u, "io") :
          r.wrote /\ Invoke("Delete", m, u, None, None, r)

UpdateIoError(m, u, p, n) ==
    /\ Idle
    /\ \E r \in update_account(file, derive_key(m), u, p, n, "io") :
          r.wrote /\ Invoke("Update", m, u, p, n, r)

(* Invocations whose process dies inside fs::write *)

AddCrash(m, u, p, n) ==
    /\ Idle
    /\ \E r \in add_account(file, derive_key(m), u, p, n, "crash") :
          r.wrote /\ Invoke("Add", m, u, Some(p), Some(n), r)

DeleteCrash(m, u) ==
    /\ Idle
    /\ \E r \in delete_account(file, derive_key(m), u, "crash") :
          r.wrote /\ Invoke("Delete", m, u, None, None, r)

UpdateCrash(m, u, p, n) ==
    /\ Idle
    /\ \E r \in update_account(file, derive_key(m), u, p, n, "crash") :
          r.wrote /\ Invoke("Update", m, u, p, n, r)

(* Somebody alters the stored envelope between invocations: a bit of the   *)
(* ciphertext is flipped, or the nonce is replaced by another 12-byte one. *)

Environment(f) ==
    /\ Idle
    /\ file' = f
    /\ UNCHANGED <<last, abs, deleted, nonces, procs>>

TamperCiphertext ==
    /\ file.exists
    /\ from_str(file.content).ok
    /\ LET s == file.content[5].v
       IN /\ s.valid
          /\ ~s.bytes.flip
          /\ Environment([file EXCEPT !.content[5] =
                 Str(encode([s.bytes EXCEPT !.flip = TRUE]))])

TamperNonce ==
    /\ file.exists
    /\ from_str(file.content).ok
    /\ \E iv \in Nonces :
          /\ Str(encode(iv)) # file.content[3]
          /\ Environment([file EXCEPT !.content[3] = Str(encode(iv))])

(* The file is replaced by a document that is not a well-formed envelope   *)
(* of a well-formed account map.                                           *)

NotBase64 == [valid |-> FALSE, bytes |-> <<>>]

MalformedDocuments ==
    LET iv  == CHOOSE x \in Nonces : TRUE
        key == derive_key(CHOOSE m \in Passphrases : TRUE)
        ed  == encode(encrypt(key, iv, <<>>))
    IN {\* not JSON
        <<>>,
        <<LBrace, Key("iv")>>,
        \* a field is missing
        <<LBrace, Key("iv"), Str(encode(iv)), RBrace>>,
        \* a field is not base64
        to_string([iv |-> NotBase64, encrypted_data |-> ed]),
        to_string([iv |-> encode(iv), encrypted_data |-> NotBase64]),
        \* the payload is not an account map: an entry lacks its notes
        to_string([iv |-> encode(iv),
                   encrypted_data |-> encode(encrypt(key, iv,
                       <<[key |-> "alice", password |-> "p1"]>>))])}
    \cup
       \* the nonce field decodes to fewer or more than 12 bytes
       {to_string([iv |-> encode([len |-> l, id |-> 1]), encrypted_data |-> ed])
           : l \in {NONCE_LENGTH - 4, NONCE_LENGTH + 4}}

Corrupt ==
    \E doc \in MalformedDocuments :
        Environment([exists |-> TRUE, content |-> doc])

-----------------------------------------------------------------------------
(* Specifications *)

\* sequential invocations, no faults
Next ==
    \/ \E m \in Passphrases, u \in Usernames, p \in Passwords, n \in NotesVals :
          Add(m, u, p, n)
    \/ \E m \in Passphrases, u \in Usernames : Delete(m, u)
    \/ \E m \in Passphrases, u \in Usernames,
          p \in Options(Passwords), n \in Options(NotesVals) :
          Update(m, u, p, n)
    \/ \E m \in Passphrases : List(m)
    \/ \E m \in Passphrases, u \in Usernames : Get(m, u)
    \/ Exit

Spec == Init /\ [][Next]_vars

\* sequential invocations whose write may fail with an I/O error
NextIO ==
    \/ Next
    \/ \E m \in Passphrases, u \in Usernames, p \in Passwords, n \in NotesVals :
          AddIoError(m, u, p, n)
    \/ \E m \in Passphrases, u \in Usernames : DeleteIoError(m, u)
    \/ \E m \in Passphrases, u \in Usernames,
          p \in Options(Passwords), n \in Options(NotesVals) :
          UpdateIoError(m, u, p, n)

SpecIO == Init /\ [][NextIO]_vars

\* sequential invocations that may die while writing
NextCrash ==
    \/ Next
    \/ \E m \in Passphrases, u \in Usernames, p \in Passwords, n \in NotesVals :
          AddCrash(m, u, p, n)
    \/ \E m \in Passphrases, u \in Usernames : DeleteCrash(m, u)
    \/ \E m \in Passphrases, u \in Usernames,
          p \in Options(Passwords), n \in Options(NotesVals) :
          UpdateCrash(m, u, p, n)

SpecCrash == Init /\ [][NextCrash]_vars

\* sequential invocations over a file that may be tampered with
NextTamper ==
    \/ Next
    \/ TamperCiphertext
    \/ TamperNonce

SpecTamper == Init /\ [][NextTamper]_vars

\* sequential invocations over a file that may hold any malformed document
NextCorrupt ==
    \/ Next
    \/ Corrupt

SpecCorrupt == Init /\ [][NextCorrupt]_vars

-----------------------------------------------------------------------------
(* Invocations that overlap.  A mutating handler is three steps to the      *)
(* other processes: it reads the file and computes the document to write    *)
(* (load_accounts up to serde_json::to_string; nothing in between touches   *)
(* the file), then fs::write opens the file with File::create, which        *)
(* truncates it, then write_all writes the document from offset 0.          *)

\* the length in bytes of a file's content, by the number of accounts in
\* the payload; longer content has a tail left by a longer document
Leftover(size) == [t |-> "tail", size |-> size]

Size(content) ==
    IF content = <<>> THEN 0
    ELSE IF content[Len(content)].t = "tail" THEN content[Len(content)].size
    ELSE 1 + Len(content[5].v.bytes.pt)

\* write_all(json) at offset 0 of a file that holds content
write_all(content, json) ==
    IF Size(content) > Size(json)
    THEN json \o <<Leftover(Size(content))>>
    ELSE json

\* the invocations made so far
RECURSIVE Runs(_)
Runs(S) ==
    IF S = {} THEN 0
    ELSE LET i == CHOOSE j \in S : TRUE IN procs[i].runs + Runs(S \ {i})

\* process i starts op: r is the handler's outcome on the file as it is now
Begin(i, op, key, u, r) ==
    /\ procs[i].pc = "idle"
    /\ Runs(Procs) < MaxRuns
    /\ procs' = [procs EXCEPT ![i] =
                    [NoProcess(procs[i].runs + 1) EXCEPT
                        !.pc = IF r.wrote THEN "create" ELSE "done",
                        !.op = op, !.key = key, !.u = u,
                        !.res = IF r.wrote THEN Ok ELSE r.res,
                        !.old = IF r.wrote THEN r.old ELSE AccountStore_new,
                        !.json = IF r.wrote THEN r.file.content ELSE <<>>]]
    /\ UNCHANGED <<file, last, abs, deleted, nonces>>

ConcAdd(i, u) ==
    /\ procs[i].pc = "idle"
    /\ \E r \in add_account(file, derive_key("m1"), u, "p1", "n1", "none") :
          Begin(i, "Add", derive_key("m1"), u, r)

ConcDelete(i, u) ==
    /\ procs[i].pc = "idle"
    /\ \E r \in delete_account(file, derive_key("m1"), u, "none") :
          Begin(i, "Delete", derive_key("m1"), u, r)

ConcUpdate(i, u) ==
    /\ procs[i].pc = "idle"
    /\ \E r \in update_account(file, derive_key("m1"), u, Some("p2"), None, "none") :
          Begin(i, "Update", derive_key("m1"), u, r)

\* the other processes that are between their load and their write_all have
\* no longer read what the file holds
Touched(i) ==
    [j \in Procs |->
        IF j # i /\ procs[j].pc \in {"create", "write"}
        THEN [procs[j] EXCEPT !.clean = FALSE]
        ELSE procs[j]]

\* File::create inside fs::write
FileCreate(i) ==
    /\ procs[i].pc = "create"
    /\ file' = [exists |-> TRUE, content |-> <<>>]
    /\ procs' = [Touched(i) EXCEPT ![i].pc = "write"]
    /\ UNCHANGED <<last, abs, deleted, nonces>>

\* write_all inside fs::write, after which the handler returns Ok; a Delete
\* that returns is noted on the Adds of its username that are under way
WriteAll(i) ==
    /\ procs[i].pc = "write"
    /\ file' = [exists |-> TRUE,
                content |-> write_all(file.content, procs[i].json)]
    /\ procs' = [j \in Procs |->
                    IF j = i
                    THEN [NoProcess(procs[i].runs) EXCEPT
                             !.pc = "done", !.op = procs[i].op,
                             !.key = procs[i].key, !.u = procs[i].u,
                             !.del = procs[i].del]
                    ELSE IF /\ procs[i].op = "Delete"
                            /\ procs[j].op = "Add"
                            /\ procs[j].u = procs[i].u
                         THEN [Touched(i)[j] EXCEPT !.del = TRUE]
                         ELSE Touched(i)[j]]
    /\ UNCHANGED <<last, abs, deleted, nonces>>

\* the process exits
ConcExit(i) ==
    /\ procs[i].pc = "done"
    /\ procs' = [procs EXCEPT ![i] = NoProcess(procs[i].runs)]
    /\ UNCHANGED <<file, last, abs, deleted, nonces>>

NextConc ==
    \E i \in Procs :
        \/ \E u \in Usernames : ConcAdd(i, u)
        \/ \E u \in Usernames : ConcDelete(i, u)
        \/ \E u \in Usernames : ConcUpdate(i, u)
        \/ FileCreate(i)
        \/ WriteAll(i)
        \/ ConcExit(i)

SpecConc == Init /\ [][NextConc]_vars

-----------------------------------------------------------------------------
(* Properties *)

Mutating == {"Add", "Delete", "Update"}

\* the account map a key reads from a file, when it can
Opens(f, key)    == load_accounts(f, key).res = Ok
Accounts(f, key) == load_accounts(f, key).accounts

\* C1: an Add, Delete or Update that returns an error leaves the backing file
\* exactly as it was before the call (or still absent).
C1_FailedMutationLeavesFile ==
    (last.op \in Mutating /\ last.res \notin {Ok, Crashed})
        => file = last.before

\* C2: when the process dies inside the write of a new envelope, a load of the
\* file it leaves behind, under any key, gives the account map from before the
\* mutation or the map of the completed mutation, or fails.
C2_CrashedWriteNeverReadsOtherMap ==
    last.res = Crashed =>
        \A m \in Passphrases :
            Opens(file, derive_key(m)) =>
                Accounts(file, derive_key(m)) \in {last.old, last.new}

\* a crash that left a proper prefix of the new envelope over a non-empty store
C2_Witness ==
    /\ last.res = Crashed
    /\ file.exists
    /\ file # last.before
    /\ last.old # AccountStore_new
    /\ last.new # last.old
    /\ ~Opens(file, last.key)

\* the file holds a well-formed envelope that does not authenticate under key:
\* sealed under another key, ciphertext altered, or nonce altered
NotAuthentic(f, key) ==
    /\ f.exists
    /\ from_str(f.content).ok
    /\ LET iv == from_str(f.content).iv
           ed == from_str(f.content).encrypted_data
       IN /\ iv.valid /\ ed.valid
          /\ iv.bytes.len = NONCE_LENGTH
          /\ \/ ed.bytes.k # key
             \/ ed.bytes.flip
             \/ ed.bytes.n # iv.bytes

\* C3: when the envelope in the file does not authenticate under the key of
\* the invocation, every operation fails with the authentication error
\* (AppError::AesError), prints no account data and leaves the file unchanged.
C3_UnauthenticEnvelopeRejected ==
    (~Idle /\ NotAuthentic(last.before, last.key)) =>
        /\ last.res = AesError
        /\ last.out = {}
        /\ ~last.wrote
        /\ file = last.before

\* Get under the right key on an envelope whose ciphertext was altered
C3_Witness ==
    /\ last.op = "Get"
    /\ NotAuthentic(last.before, last.key)
    /\ from_str(last.before.content).encrypted_data.bytes.k = last.key
    /\ from_str(last.before.content).encrypted_data.bytes.flip
    /\ last.u \in DOMAIN abs
    /\ last.res = AesError

\* C4: Add(u, p, n) when u is already in the persisted store fails with the
\* "account exists" error, writes nothing, and the account stored for u keeps
\* its password and notes.
C4_AddExistingFails ==
    (/\ last.op = "Add"
     /\ Opens(last.before, last.key)
     /\ last.u \in DOMAIN Accounts(last.before, last.key))
        => /\ last.res = AccountExists
           /\ ~last.wrote
           /\ file = last.before
           /\ Accounts(file, last.key)[last.u]
                = Accounts(last.before, last.key)[last.u]

\* an Add of an existing username with another password and other notes
C4_Witness ==
    /\ last.op = "Add"
    /\ last.res = AccountExists
    /\ last.u \in DOMAIN abs
    /\ abs[last.u].password # last.p[1]
    /\ abs[last.u].notes # last.n[1]

\* C5: Update(u, ..) when u is absent from the persisted store, or when there
\* is no file, fails with the "account does not exist" error and leaves the
\* file as it was; no file is created if none existed.
C5_UpdateMissingFails ==
    (/\ last.op = "Update"
     /\ Opens(last.before, last.key)
     /\ last.u \notin DOMAIN Accounts(last.before, last.key))
        => /\ last.res = AccountMissing
           /\ ~last.wrote
           /\ file = last.before

\* an Update of an absent username, with both fields given, on a non-empty store
C5_Witness ==
    /\ last.op = "Update"
    /\ last.res = AccountMissing
    /\ last.before.exists
    /\ DOMAIN abs # {}
    /\ last.p # None /\ last.n # None

\* C6: a successful Update(u, password?, notes?) gives each provided field its
\* new value, keeps each omitted field, and leaves every other account as it
\* was; it succeeds whenever u is present, also with both fields omitted, and
\* then the account map is unchanged.
C6_UpdateOverwritesProvidedFields ==
    (/\ last.op = "Update"
     /\ Opens(last.before, last.key)
     /\ last.u \in DOMAIN Accounts(last.before, last.key))
        => LET old == Accounts(last.before, last.key)
               new == Accounts(file, last.key)
           IN /\ last.res = Ok
              /\ last.wrote
              /\ Opens(file, last.key)
              /\ DOMAIN new = DOMAIN old
              /\ \A v \in DOMAIN old \ {last.u} : new[v] = old[v]
              /\ new[last.u].password =
                    IF last.p = None THEN old[last.u].password ELSE last.p[1]
              /\ new[last.u].notes =
                    IF last.n = None THEN old[last.u].notes ELSE last.n[1]
              /\ (last.p = None /\ last.n = None) => new = old

\* an Update that gives a new password and omits the notes, beside another account
C6_Witness ==
    /\ last.op = "Update"
    /\ last.res = Ok
    /\ last.p # None /\ last.n = None
    /\ last.old[last.u].password # last.p[1]
    /\ abs[last.u] = [password |-> last.p[1], notes |-> last.old[last.u].notes]
    /\ DOMAIN abs = Usernames

\* C7: Delete(u) of a present u removes exactly that entry and persists;
\* after it, Get(u) never succeeds, and under the key of the store fails with
\* the "account does not exist" error, until an Add(u) succeeds; Delete(u) of
\* an absent u fails with that error and writes nothing.
C7_DeleteRemovesUntilAdded ==
    /\ (/\ last.op = "Delete"
        /\ Opens(last.before, last.key)
        /\ last.u \in DOMAIN Accounts(last.before, last.key))
          => LET old == Accounts(last.before, last.key)
             IN /\ last.res = Ok
                /\ last.wrote
                /\ Opens(file, last.key)
                /\ Accounts(file, last.key)
                     = [v \in DOMAIN old \ {last.u} |-> old[v]]
    /\ (/\ last.op = "Delete"
        /\ Opens(last.before, last.key)
        /\ last.u \notin DOMAIN Accounts(last.before, last.key))
          => /\ last.res = AccountMissing
             /\ ~last.wrote
             /\ file = last.before
    /\ (last.op = "Get" /\ last.u \in deleted)
          => /\ last.res # Ok
             /\ last.out = {}
             /\ Opens(last.before, last.key) => last.res = AccountMissing

\* Get of a deleted username while the other account is still stored
C7_Witness ==
    /\ last.op = "Get"
    /\ last.u \in deleted
    /\ last.res = AccountMissing
    /\ DOMAIN abs = Usernames \ {last.u}

\* C8: the account map read from the file is the abstract map, the successful
\* Add/Delete/Update operations applied in order to the empty map: without a
\* file it is empty, a file that exists opens under the key that sealed it and
\* decodes to it (also when it is empty), and a successful Get or List prints
\* the entries of the abstract map.
C8_FileRefinesAbstractMap ==
    /\ ~file.exists => abs = AccountStore_new
    /\ file.exists =>
          \E m \in Passphrases :
              load_accounts(file, derive_key(m)) = [res |-> Ok, accounts |-> abs]
    /\ (last.op = "Get" /\ last.res = Ok)
          => /\ last.u \in DOMAIN abs
             /\ last.out = {<<last.u, abs[last.u].password, abs[last.u].notes>>}
    /\ (last.op = "List" /\ last.res = Ok)
          => last.out = {<<u, abs[u].password, abs[u].notes>> : u \in DOMAIN abs}

\* a Get that prints an account whose notes were changed by an Update
C8_Witness ==
    /\ last.op = "Get"
    /\ last.res = Ok
    /\ DOMAIN abs = Usernames
    /\ last.out = {<<last.u, "p1", "n2">>}
    /\ \A u \in Usernames \ {last.u} : abs[u] = [password |-> "p2", notes |-> "n1"]

\* the envelope of the empty map, read back as the empty map
C8_WitnessEmpty ==
    /\ file.exists
    /\ abs = AccountStore_new
    /\ last.op = "List" /\ last.res = Ok /\ last.out = {}

\* C9: starting without a backing file, List succeeds and prints nothing, and
\* the file comes into existence only in a successful Add: no List, Get,
\* Delete, Update or failed Add creates it.
C9_FileCreatedOnlyBySuccessfulAdd ==
    [][/\ (~file.exists /\ file'.exists)
            => (last'.op = "Add" /\ last'.res = Ok)
       /\ (~file.exists /\ last'.op = "List")
            => (last'.res = Ok /\ last'.out = {} /\ ~file'.exists)]_vars

\* C10: List and Get never write: whether they succeed or fail, the backing
\* file (its existence and its content, nonce included) is as it was.
C10_ReadsDoNotWrite ==
    last.op \in {"List", "Get"} => (~last.wrote /\ file = last.before)

\* a Get that succeeds and a file that is still the same envelope
C10_Witness ==
    /\ last.op = "Get"
    /\ last.res = Ok
    /\ file.exists
    /\ file = last.before


\* the file holds one of the malformed documents, and key gets as far as its
\* defect (it opens the envelope whose payload is malformed)
Malformed(f, key) ==
    /\ f.exists
    /\ f.content \in MalformedDocuments
    /\ ~NotAuthentic(f, key)

\* the error kinds of the design that an AppError variant stands for
FormatErrors == {SerdeError, Base64Error}

\* C11: whatever an existing file holds, load gives an account map or returns
\* an error value and never aborts the process; a document that is not a
\* well-formed envelope of a well-formed account map gives a format error.
C11_LoadNeverAborts ==
    (~Idle /\ last.before.exists) =>
        /\ last.res # Panic
        /\ Malformed(last.before, last.key) => last.res \in FormatErrors

\* the part of C11 that the code keeps: every malformed document but the one
\* with a nonce of the wrong length gives a format error
C11_FormatErrorUnlessNonceLength ==
    (~Idle /\ Malformed(last.before, last.key)) =>
        \/ last.res \in FormatErrors
        \/ /\ last.res = Panic
           /\ from_str(last.before.content).ok
           /\ from_str(last.before.content).iv.valid
           /\ from_str(last.before.content).iv.bytes.len # NONCE_LENGTH


\* the failure an invocation met, told from the file it found and its input
Cause(l) ==
    IF l.res = IoError THEN "IoError"
    ELSE IF NotAuthentic(l.before, l.key) THEN "AuthenticationError"
    ELSE IF ~Opens(l.before, l.key) THEN "FormatError"
    ELSE IF l.op = "Add" THEN "AlreadyExists"
    ELSE "NotFound"

\* C12: every failure reaches the caller as an error whose kind (the variant
\* of AppError) identifies exactly one of the five failure kinds, the one that
\* happened; "already exists" and "not found" are different kinds.
C12_ErrorKindIdentifiesFailure ==
    (~Idle /\ last.res \notin {Ok, Crashed, Panic})
        => ReportedAs(Variant(last.res)) = {Cause(last)}

\* the part of C12 that the code keeps: the kind of the error is one under
\* which the failure that happened is reported, and the message tells the two
\* failures of kind OtherError apart
C12_ErrorKindCoversFailure ==
    (~Idle /\ last.res \notin {Ok, Crashed, Panic})
        => /\ Cause(last) \in ReportedAs(Variant(last.res))
           /\ last.res = AccountExists <=> Cause(last) = "AlreadyExists"
           /\ last.res = AccountMissing <=> Cause(last) = "NotFound"


\* the nonce that the envelope in a file carries
NonceOf(f) == from_str(f.content).iv.bytes

\* C14: every successful save generates a new 12-byte nonce, and no two
\* envelopes ever written under one key carry the same nonce.
C14_NonceNeverReused ==
    [][(Idle /\ last'.wrote /\ last'.res = Ok)
          => /\ NonceOf(file').len = NONCE_LENGTH
             /\ <<last'.key, NonceOf(file')>> \notin nonces]_vars

\* C14 as the code has it: every successful save draws a 12-byte nonce from
\* rand::random, seals the payload under it and stores it beside the
\* ciphertext; nothing keeps it apart from the nonces drawn before.
C14_SaveDrawsRandomNonce ==
    (last.wrote /\ last.res = Ok)
        => /\ from_str(file.content).ok
           /\ NonceOf(file) \in Nonces
           /\ NonceOf(file).len = NONCE_LENGTH
           /\ from_str(file.content).encrypted_data.bytes.n = NonceOf(file)
           /\ <<last.key, NonceOf(file)>> \in nonces

\* a save that drew the nonce of the envelope it replaced
C14_Witness ==
    /\ last.wrote /\ last.res = Ok
    /\ last.before.exists
    /\ NonceOf(file) = NonceOf(last.before)
    /\ file # last.before


\* f holds a whole envelope: a 12-byte nonce and a ciphertext sealed under
\* that nonce whose payload is an account map with no username twice
WellFormedEnvelope(f) ==
    LET store == from_str(f.content) IN
    /\ store.ok
    /\ store.iv.valid
    /\ store.iv.bytes.len = NONCE_LENGTH
    /\ store.encrypted_data.valid
    /\ LET ct == store.encrypted_data.bytes IN
       /\ ~ct.flip
       /\ ct.n = store.iv.bytes
       /\ from_slice_ok(ct.pt)
       /\ \A i, j \in 1..Len(ct.pt) : ct.pt[i].key = ct.pt[j].key => i = j

\* the key a file's ciphertext was sealed under
SealedUnder(f) == from_str(f.content).encrypted_data.bytes.k

\* C15: in every state of sequential invocations without crashes, a file that exists is a well-formed envelope: 12-byte nonce, a
\* ciphertext that authenticates under the key of the invocation that wrote
\* it and decodes to an account map with unique usernames, the map that
\* invocation held when it saved.
C15_FileIsWellFormedEnvelope ==
    file.exists =>
        /\ WellFormedEnvelope(file)
        /\ <<SealedUnder(file), NonceOf(file)>> \in nonces
        /\ Opens(file, SealedUnder(file))
        /\ Accounts(file, SealedUnder(file)) = abs
        /\ (last.wrote /\ last.res = Ok) =>
               /\ SealedUnder(file) = last.key
               /\ Accounts(file, last.key) = last.new


\* C16: the store's key is fixed by the first successful Add and the file is
\* never removed.  Every envelope ever written is sealed under the key of the
\* Add that created the file; an invocation under another key neither
\* succeeds nor changes the file; a file that exists goes on existing;
\* deleting the last account leaves an envelope of the empty map, on which
\* List succeeds and prints nothing.
C16_KeyFixedByCreatingAdd ==
    [][/\ file.exists => file'.exists
       /\ (~file.exists /\ WellFormedEnvelope(file'))
             => /\ last'.op = "Add" /\ last'.res = Ok
                /\ SealedUnder(file') = last'.key
       /\ \A e1, e2 \in nonces' : e1[1] = e2[1]
       /\ (Idle /\ WellFormedEnvelope(file) /\ last'.key # SealedUnder(file))
             => /\ last'.res # Ok
                /\ file' = file
       /\ (last'.op = "Delete" /\ last'.res = Ok /\ DOMAIN last'.old = {last'.u})
             => /\ WellFormedEnvelope(file')
                /\ Opens(file', last'.key)
                /\ Accounts(file', last'.key) = AccountStore_new
       /\ (last'.op = "List" /\ Opens(file, last'.key)
              /\ Accounts(file, last'.key) = AccountStore_new)
             => /\ last'.res = Ok
                /\ last'.out = {}]_vars

\* an Add under another key refused on a store emptied by a Delete
C16_Witness ==
    /\ last.op = "Add" /\ last.res = AesError
    /\ file.exists /\ WellFormedEnvelope(file)
    /\ last.key # SealedUnder(file)
    /\ Accounts(file, SealedUnder(file)) = AccountStore_new
    /\ \E e \in nonces : e[1] = SealedUnder(file) /\ e[2] # NonceOf(file)


-----------------------------------------------------------------------------
(* Overlapping invocations *)

\* the map that process i handed to save_accounts
Snapshot(i) == from_slice(procs[i].json[5].v.bytes.pt)

\* process i takes the step from pc a to pc b
Steps(i, a, b) == procs[i].pc = a /\ procs'[i].pc = b

\* the persisted store holds username u under key
Persisted(f, key, u) == Opens(f, key) /\ contains_key(Accounts(f, key), u)

\* C13: when two mutating invocations overlap on the file, neither blocks
\* nor fails because of the other, and the file after the last write is
\* exactly that writer's envelope: its loaded snapshot plus its own mutation.
C13_LastWriterWins ==
    [][\A i \in Procs :
          /\ procs[i].pc = "create" => ENABLED FileCreate(i)
          /\ procs[i].pc = "write" => ENABLED WriteAll(i)
          /\ procs'[i].pc = "done"
                => procs'[i].res \in {Ok, AccountExists, AccountMissing}
          /\ Steps(i, "write", "done")
                => /\ file'.content = procs[i].json
                   /\ Opens(file', procs[i].key)
                   /\ Accounts(file', procs[i].key) = Snapshot(i)]_vars

\* C17: Add never overwrites an existing account, also when invocations
\* overlap: when an Add of u reports success, u was absent from the persisted
\* store at the moment it wrote, so of two Adds of u with no successful
\* Delete of u in between at most one reports success.
C17_AddNeverOverwrites ==
    [][\A i \in Procs : procs[i].op = "Add" =>
          /\ (Steps(i, "create", "write") \/ Steps(i, "write", "done"))
                => ~Persisted(file, procs[i].key, procs[i].u)
          /\ Steps(i, "write", "done")
                => \A j \in Procs \ {i} :
                      ~ /\ procs[j].op = "Add" /\ procs[j].pc = "done"
                        /\ procs[j].res = Ok
                        /\ procs[j].u = procs[i].u
                        /\ ~procs[j].del]_vars

\* C17 as the code has it: an Add of u that reports success found u absent
\* from the map it loaded and wrote a map that holds u; u was absent from the
\* persisted store when it wrote provided no other invocation had written
\* the file since that load.
C17_AddAbsentFromLoadedMap ==
    [][\A i \in Procs : procs[i].op = "Add" =>
          /\ procs[i].pc \in {"create", "write"}
                => /\ ~contains_key(procs[i].old, procs[i].u)
                   /\ contains_key(Snapshot(i), procs[i].u)
          /\ (procs[i].clean /\ (Steps(i, "create", "write")
                                   \/ Steps(i, "write", "done")))
                => ~Persisted(file, procs[i].key, procs[i].u)
          /\ (procs[i].clean /\ Steps(i, "write", "done"))
                => Persisted(file', procs[i].key, procs[i].u)]_vars

\* two overlapping Adds of one username have both reported success
C17_Witness ==
    \E i, j \in Procs :
        /\ i # j
        /\ procs[i].op = "Add" /\ procs[i].pc = "done" /\ procs[i].res = Ok
        /\ procs[j].op = "Add" /\ procs[j].pc = "done" /\ procs[j].res = Ok
        /\ procs[i].u = procs[j].u
        /\ ~procs[i].del /\ ~procs[j].del
        /\ Persisted(file, procs[i].key, procs[i].u)

====
